---- MODULE Spec2Model ----
(***************************************************************************)
(* License dashboard view model (App component): the status classifier,    *)
(* the search/status filter and the sort stage, as the component computes  *)
(* them from its state.                                                    *)
(*                                                                         *)
(* Strings are sequences of one-character strings.  A nullable string      *)
(* (hwid: string | null) is a sequence of length 0 (null) or 1 (the        *)
(* string).  An instant is a number of milliseconds; expires_at is the     *)
(* instant `new Date(expires_at).getTime()` yields for the stored value.   *)
(* One handler together with the render it triggers is one action, and     *)
(* every `new Date()` read inside one action yields the same instant.      *)
(***************************************************************************)
EXTENDS Integers, Sequences, FiniteSets, TLC

(***************************************************************************)
(* Bounds of the model.                                                    *)
(***************************************************************************)
MaxTicks == 1
MaxRows == 21
MaxInflight == 2
MaxAuthCalls == 2

(***************************************************************************)
(* Strings.                                                                *)
(***************************************************************************)
NULL == <<>>
Str(s) == <<s>>

\* String.prototype.toLowerCase, one character
LowerChar(c) ==
    CASE c = "A" -> "a"
      [] c = "B" -> "b"
      [] OTHER -> c

toLowerCase(s) == [i \in 1..Len(s) |-> LowerChar(s[i])]

\* String.prototype.includes
includes(s, t) ==
    \E i \in 0..(Len(s) - Len(t)) : SubSeq(s, i + 1, i + Len(t)) = t

\* truthiness of a value of type string | null: null and "" are falsy
Truthy(h) == h # NULL /\ h[1] # <<>>

\* (h || ''): the string itself when truthy, else the empty string
OrEmpty(h) == IF Truthy(h) THEN h[1] ELSE <<>>

RECURSIVE SeqCmp(_, _)
\* lexicographic comparison of two sequences of numbers: -1, 0 or 1
SeqCmp(a, b) ==
    IF a = <<>> /\ b = <<>> THEN 0
    ELSE IF a = <<>> THEN -1
    ELSE IF b = <<>> THEN 1
    ELSE IF Head(a) < Head(b) THEN -1
    ELSE IF Head(a) > Head(b) THEN 1
    ELSE SeqCmp(Tail(a), Tail(b))

\* collation weights of a character: the letter first, the case second
\* (lower case before upper case)
PrimaryWeight(c) == IF LowerChar(c) = "a" THEN 1 ELSE 2
TertiaryWeight(c) == IF LowerChar(c) = c THEN 0 ELSE 1

\* String.prototype.localeCompare: the letters decide; between strings with
\* the same letters the case decides
localeCompare(a, b) ==
    LET p == SeqCmp([i \in 1..Len(a) |-> PrimaryWeight(a[i])],
                    [i \in 1..Len(b) |-> PrimaryWeight(b[i])])
    IN  IF p # 0 THEN p
        ELSE SeqCmp([i \in 1..Len(a) |-> TertiaryWeight(a[i])],
                    [i \in 1..Len(b) |-> TertiaryWeight(b[i])])

(***************************************************************************)
(* Values the inputs are drawn from.                                       *)
(***************************************************************************)
MsPerDay == 1000 * 60 * 60 * 24

LicenseKeys == {<<"a">>, <<"A", "b">>, <<"B">>}
Hwids == {NULL, Str(<<>>), Str(<<"a", "B">>)}
\* at the last instant of the clock: expired, equal to now, exactly seven
\* days ahead, more than seven days ahead
ExpiryTimes == {0, MaxTicks, 7 * MsPerDay + MaxTicks, 7 * MsPerDay + MaxTicks + 1}
Instants == 0..MaxTicks
SearchTerms == {<<>>, <<"a", "B">>}

FilterStatuses == {"all", "active", "expired", "expiring"}
SortFields == {"license_key", "status", "hwid", "expires_at"}
SortDirections == {"asc", "desc"}
StatusNames == {"expired", "expiring", "active", "available"}

\* interface License
LicenseRecords == [license_key : LicenseKeys, expires_at : ExpiryTimes, hwid : Hwids]

(***************************************************************************)
(* Status classifier.                                                      *)
(***************************************************************************)
isExpired(license, now) == license.expires_at < now

\* isExpiringSoon without its !isExpired conjunct
isExpiringSoonUnguarded(license, now) == license.expires_at - now <= 7 * MsPerDay

\* diffDays <= 7 with diffDays = diffTime / msPerDay, on whole milliseconds
isExpiringSoon(license, now) ==
    ~isExpired(license, now) /\ license.expires_at - now <= 7 * MsPerDay

getLicenseStatus(license, now) ==
    IF isExpired(license, now) THEN "expired"
    ELSE IF isExpiringSoon(license, now) THEN "expiring"
    ELSE IF Truthy(license.hwid) THEN "active"
    ELSE "available"

(***************************************************************************)
(* Filter stage.                                                           *)
(***************************************************************************)
\* matchesSearch with the term compared as typed, not lower-cased
matchesSearchTermAsTyped(l, term) ==
    \/ includes(toLowerCase(l.license_key), term)
    \/ (Truthy(l.hwid) /\ includes(toLowerCase(l.hwid[1]), term))

matchesSearch(l, term) ==
    \/ includes(toLowerCase(l.license_key), toLowerCase(term))
    \/ (Truthy(l.hwid) /\ includes(toLowerCase(l.hwid[1]), toLowerCase(term)))

\* the filter's isExpired with <= for <
filterIsExpiredInclusive(l, now) == l.expires_at <= now

\* the filter callback's own locals
filterIsExpired(l, now) == l.expires_at < now

filterIsExpiringSoon(l, now) ==
    ~filterIsExpired(l, now) /\ l.expires_at - now <= 7 * MsPerDay

matchesStatus(l, status, now) ==
    CASE status = "active" -> ~filterIsExpired(l, now)
      [] status = "expired" -> filterIsExpired(l, now)
      [] status = "expiring" -> filterIsExpiringSoon(l, now)
      [] OTHER -> TRUE

\* the filter with the two predicates joined by OR
FilterLicensesEither(list, term, status, now) ==
    LET Keep(l) == matchesSearch(l, term) \/ matchesStatus(l, status, now)
    IN  SelectSeq(list, Keep)

RECURSIVE FilterLicensesSkipping(_, _, _, _)
\* the filter as a loop that removes in place and steps over the record
\* that follows each removed one
FilterLicensesSkipping(list, term, status, now) ==
    IF list = <<>> THEN <<>>
    ELSE IF matchesSearch(Head(list), term) /\ matchesStatus(Head(list), status, now)
         THEN <<Head(list)>> \o FilterLicensesSkipping(Tail(list), term, status, now)
    ELSE IF Len(list) = 1 THEN <<>>
    ELSE <<list[2]>> \o FilterLicensesSkipping(Tail(Tail(list)), term, status, now)

\* licenses.filter(l => ...)
FilterLicenses(list, term, status, now) ==
    LET Keep(l) == matchesSearch(l, term) /\ matchesStatus(l, status, now)
    IN  SelectSeq(list, Keep)

(***************************************************************************)
(* Row badge: the status the table row shows.                              *)
(***************************************************************************)
rowBadge(license, now) ==
    LET rowIsExpired == license.expires_at < now
        isUsed == Truthy(license.hwid)
        rowIsExpiringSoon == ~rowIsExpired /\ license.expires_at - now <= 7 * MsPerDay
    IN  IF rowIsExpired THEN "expired"
        ELSE IF rowIsExpiringSoon THEN "expiring"
        ELSE IF isUsed THEN "active"
        ELSE "available"

(***************************************************************************)
(* Sort stage.                                                             *)
(***************************************************************************)
dirMultiplier(config) == IF config.direction = "asc" THEN 1 ELSE -1

\* the order array with its first two entries swapped
orderIndexOfSwapped(status) ==
    CASE status = "active" -> 0
      [] status = "available" -> 1
      [] status = "expiring" -> 2
      [] status = "expired" -> 3
      [] OTHER -> -1

\* order.indexOf(status), zero-based
orderIndexOf(status) ==
    CASE status = "available" -> 0
      [] status = "active" -> 1
      [] status = "expiring" -> 2
      [] status = "expired" -> 3
      [] OTHER -> -1

\* the comparator handed to Array.prototype.sort
compare(a, b, config, now) ==
    CASE config.field = "license_key" ->
            localeCompare(a.license_key, b.license_key) * dirMultiplier(config)
      [] config.field = "hwid" ->
            localeCompare(OrEmpty(a.hwid), OrEmpty(b.hwid)) * dirMultiplier(config)
      [] config.field = "status" ->
            (orderIndexOf(getLicenseStatus(a, now)) - orderIndexOf(getLicenseStatus(b, now)))
                * dirMultiplier(config)
      [] OTHER ->
            (a.expires_at - b.expires_at) * dirMultiplier(config)

\* an insertion that puts x before the elements it compares equal to
InsertSortedBeforeEqual(run, x, config, now) ==
    LET less == {j \in 1..Len(run) : compare(run[j], x, config, now) < 0}
        k == IF less = {} THEN 0
             ELSE CHOOSE j \in less : \A i \in less : i <= j
    IN  SubSeq(run, 1, k) \o <<x>> \o SubSeq(run, k + 1, Len(run))

\* one step of the stable sort: x goes right after the last element of the
\* sorted run that does not compare greater than x
InsertSorted(run, x, config, now) ==
    LET notGreater == {j \in 1..Len(run) : compare(run[j], x, config, now) <= 0}
        k == IF notGreater = {} THEN 0
             ELSE CHOOSE j \in notGreater : \A i \in notGreater : i <= j
    IN  SubSeq(run, 1, k) \o <<x>> \o SubSeq(run, k + 1, Len(run))

RECURSIVE SortRun(_, _, _, _)
\* the first n elements of list, sorted
SortRun(list, n, config, now) ==
    IF n = 0 THEN <<>>
    ELSE InsertSorted(SortRun(list, n - 1, config, now), list[n], config, now)

\* descending obtained by sorting ascending and reversing the result
SortLicensesReversing(list, config, now) ==
    LET asc == SortRun(list, Len(list), [config EXCEPT !.direction = "asc"], now)
    IN  IF config.direction = "asc" THEN asc
        ELSE [i \in 1..Len(asc) |-> asc[Len(asc) + 1 - i]]

\* [...filteredLicenses].sort(comparator): a sorted copy
SortLicenses(list, config, now) == SortRun(list, Len(list), config, now)

(***************************************************************************)
(* Pagination.                                                             *)
(***************************************************************************)
\* the options of the page-size select
PageSizes == {10, 25, 50}

\* Math.ceil(n / size), n >= 0, size >= 1
ceil(n, size) == IF n % size = 0 THEN n \div size ELSE n \div size + 1

\* the page count without the floor of one page
totalPagesUnfloored(sorted, size) == ceil(Len(sorted), size)

\* Math.max(1, Math.ceil(sortedLicenses.length / pageSize))
totalPagesOf(sorted, size) ==
    IF ceil(Len(sorted), size) > 1 THEN ceil(Len(sorted), size) ELSE 1

\* a slice that takes the element at end as well
sliceInclusive(list, start, end) ==
    SubSeq(list, start + 1, IF end + 1 < Len(list) THEN end + 1 ELSE Len(list))

\* Array.prototype.slice(start, end), 0 <= start <= end: indices start..end-1,
\* clipped to the array
slice(list, start, end) ==
    SubSeq(list, start + 1, IF end < Len(list) THEN end ELSE Len(list))

\* paginatedLicenses
paginate(sorted, page, size) ==
    LET startIdx == (page - 1) * size
    IN  slice(sorted, startIdx, startIdx + size)

\* what one render shows of the pagination
Snapshot(sorted, page, size) ==
    [currentPage |-> page,
     totalPages |-> totalPagesOf(sorted, size),
     paginatedLicenses |-> paginate(sorted, page, size)]

\* the renders without the clamp effect
RenderLoopUnclamped(sorted, size, page, prev, resetDeps) ==
    IF resetDeps /\ page # 1
    THEN <<Snapshot(sorted, page, size), Snapshot(sorted, 1, size)>>
    ELSE <<Snapshot(sorted, page, size)>>

RECURSIVE RenderLoop(_, _, _, _, _)
\* The renders one state change leads to.  A render with currentPage = page
\* is committed; then its effects run, in the order they are declared and
\* with the values that render saw: the reset effect, when searchTerm,
\* filterStatus or pageSize changed (resetDeps), calls setCurrentPage(1);
\* the clamp effect, when totalPages or currentPage differ from the render
\* before (prev), calls setCurrentPage(totalPages) if currentPage >
\* totalPages.  The last call decides; a changed currentPage renders again.
RenderLoop(sorted, size, page, prev, resetDeps) ==
    LET snap == Snapshot(sorted, page, size)
        clampDeps == snap.totalPages # prev.totalPages \/ page # prev.currentPage
        afterReset == IF resetDeps THEN 1 ELSE page
        afterClamp == IF clampDeps /\ page > snap.totalPages
                      THEN snap.totalPages ELSE afterReset
    IN  IF afterClamp = page THEN <<snap>>
        ELSE <<snap>> \o RenderLoop(sorted, size, afterClamp, snap, FALSE)

(***************************************************************************)
(* Dashboard counts.                                                       *)
(***************************************************************************)
\* counts by the status getLicenseStatus gives, each record counted once
computeStatsByStatus(list, t) ==
    LET IsActive(l) == getLicenseStatus(l, t) = "active"
        IsPast(l) == getLicenseStatus(l, t) = "expired"
        IsFree(l) == getLicenseStatus(l, t) = "available"
    IN  [total |-> Len(list),
         active |-> Len(SelectSeq(list, IsActive)),
         expired |-> Len(SelectSeq(list, IsPast)),
         available |-> Len(SelectSeq(list, IsFree))]

\* the callback of the stats memo
computeStats(list, t) ==
    LET IsActive(l) == l.hwid # NULL
        IsPast(l) == l.expires_at < t
        IsFree(l) == l.hwid = NULL /\ l.expires_at > t
    IN  [total |-> Len(list),
         active |-> Len(SelectSeq(list, IsActive)),
         expired |-> Len(SelectSeq(list, IsPast)),
         available |-> Len(SelectSeq(list, IsFree))]

\* the counts taken from the rows that pass the filter, on every render
statsMemoOverFiltered(prev, replaced, raw, filtered, t) == computeStats(filtered, t)

\* the stats memo in a render: recomputed from the raw list when the raw
\* list was replaced, else the value of the render before
statsMemo(prev, replaced, raw, filtered, t) ==
    IF replaced THEN computeStats(raw, t) ELSE prev

(***************************************************************************)
(* Session and remote calls.                                               *)
(***************************************************************************)
Emails == {<<"a">>}
\* User | null, a user being known by its email
Users == {NULL} \cup {Str(m) : m \in Emails}

\* the emails of the accounts of the auth service, and the users they sign in
AuthEmails == {<<"a">>, <<"B">>, <<"a", "b">>}
AuthUsers == {NULL} \cup {Str(m) : m \in AuthEmails}

RECURSIVE split(_, _)
\* String.prototype.split with a separator of one character
split(s, sep) ==
    IF \A i \in 1..Len(s) : s[i] # sep THEN <<s>>
    ELSE LET i == CHOOSE k \in 1..Len(s) :
                      s[k] = sep /\ \A j \in 1..(k - 1) : s[j] # sep
         IN  <<SubSeq(s, 1, i - 1)>> \o split(SubSeq(s, i + 1, Len(s)), sep)

WhiteSpace == {" "}

RECURSIVE trimStart(_)
trimStart(s) ==
    IF s # <<>> /\ Head(s) \in WhiteSpace THEN trimStart(Tail(s)) ELSE s

RECURSIVE trimEnd(_)
trimEnd(s) ==
    IF s # <<>> /\ s[Len(s)] \in WhiteSpace
    THEN trimEnd(SubSeq(s, 1, Len(s) - 1)) ELSE s

\* String.prototype.trim
trim(s) == trimEnd(trimStart(s))

\* the values VITE_ADMIN_EMAILS is built with: undefined, or a string
AdminEnvValues ==
    {NULL, Str(<<>>), Str(<<" ", ",">>), Str(<<"A">>), Str(<<"b", " ">>),
     Str(<<"a", ",", " ", "B">>), Str(<<"a", "b", ",", ",", "a">>)}

\* the adminEmails memo: the entries of the list, trimmed and in lower case,
\* the empty ones dropped
parseAdminEmails(raw) ==
    LET parts == split(OrEmpty(raw), ",")
        mapped == [i \in 1..Len(parts) |-> toLowerCase(trim(parts[i]))]
        Boolean(email) == email # <<>>
    IN  SelectSeq(mapped, Boolean)

\* the isAuthorized memo, comparing the email as it is
isAuthorizedCaseSensitive(u, admins) ==
    IF ~Truthy(u) THEN FALSE
    ELSE IF Len(admins) = 0 THEN TRUE
    ELSE \E i \in 1..Len(admins) : admins[i] = u[1]

\* the isAuthorized memo
isAuthorizedOf(u, admins) ==
    IF ~Truthy(u) THEN FALSE
    ELSE IF Len(admins) = 0 THEN TRUE
    ELSE \E i \in 1..Len(admins) : admins[i] = toLowerCase(u[1])

RemoteOps == {"select", "insert", "update", "delete"}

\* a call to the remote store that has not completed: the operation, the
\* license key it names, and the isAuthorized that the closure awaiting it saw
Request(op, key, auth) == [op |-> op, key |-> key, authorized |-> auth]

Remove(queue, i) == SubSeq(queue, 1, i - 1) \o SubSeq(queue, i + 1, Len(queue))

\* the message of a failed remote call
FailureMessage == <<"b">>

\* 'Tài khoản không có quyền truy cập.', as one character
UnauthorizedMessage == <<"T">>

\* the emails typed into the login form
LoginEmails == {<<"a">>, <<"B", " ">>, <<"a", "b">>}

\* a call to the auth service that has not completed: signIn with the email
\* sent, or signOut; login tells that handleLogin awaits it
AuthCall(op, email, login) == [op |-> op, email |-> email, login |-> login]

\* the keys the create form is filled with, and the instant its date and
\* time fields give
FormKeys == {<<"a">>}
FormExpiry == 7 * MsPerDay + MaxTicks + 1

KeysOf(rows) == {rows[i].license_key : i \in 1..Len(rows)}

\* insert into licenses: the row takes its place in the order of expires_at
StoreInsert(rows, row) ==
    LET Before(r) == r.expires_at <= row.expires_at
        After(r) == r.expires_at > row.expires_at
    IN  SelectSeq(rows, Before) \o <<row>> \o SelectSeq(rows, After)

\* update licenses set hwid = null where license_key = key
StoreUnbind(rows, key) ==
    [i \in 1..Len(rows) |->
        IF rows[i].license_key = key THEN [rows[i] EXCEPT !.hwid = NULL] ELSE rows[i]]

\* delete from licenses where license_key = key
StoreDelete(rows, key) ==
    LET Other(r) == r.license_key # key
    IN  SelectSeq(rows, Other)

(***************************************************************************)
(* Credentials and the connection made on load.                            *)
(***************************************************************************)
\* values of a URL and of a key: undefined or null, empty, and strings, of
\* which those with a scheme before a colon are URLs
UrlStrings == {<<>>, <<"a">>, <<"a", ":", "b">>, <<"b", ":", "a">>}
KeyStrings == {<<>>, <<"a">>}
Nullable(strings) == {NULL} \cup {Str(x) : x \in strings}

\* SupabaseCredentials as the three sources give them
Credentials == [url : Nullable(UrlStrings), key : Nullable(KeyStrings)]
\* the items sb_url and sb_key of localStorage
Storages == [sb_url : Nullable(UrlStrings), sb_key : Nullable(KeyStrings)]

\* new URL(text) does not throw
isValidURL(text) == \E i \in 2..Len(text) : text[i] = ":"

UrlRequired == <<"u", "r", "l">>
KeyRequired == <<"k", "e", "y">>
InvalidUrl == <<"i", "n", "v">>

\* initSupabase: its answer, and the client that supabaseInstance is set to
\* on success (createClient accepts what new URL accepts)
initSupabase(creds) ==
    IF ~Truthy(creds.url)
    THEN [success |-> FALSE, error |-> Str(UrlRequired), instance |-> NULL]
    ELSE IF ~Truthy(creds.key)
    THEN [success |-> FALSE, error |-> Str(KeyRequired), instance |-> NULL]
    ELSE IF ~isValidURL(creds.url[1])
    THEN [success |-> FALSE, error |-> Str(InvalidUrl), instance |-> NULL]
    ELSE [success |-> TRUE, error |-> NULL, instance |-> Str(creds)]

getStoredCredentials(storage) ==
    IF Truthy(storage.sb_url) /\ Truthy(storage.sb_key)
    THEN Str([url |-> storage.sb_url, key |-> storage.sb_key])
    ELSE NULL

\* a save that writes the URL only
saveCredentialsUrlOnly(storage, creds) == [storage EXCEPT !.sb_url = creds.url]

saveCredentials(storage, creds) == [sb_url |-> creds.url, sb_key |-> creds.key]

\* initConnection without the step that tries the URL parameters
initConnectionSkippingUrl(envCreds, params, storage) ==
    LET envTried == Truthy(envCreds.url) /\ Truthy(envCreds.key)
        envResult == initSupabase(envCreds)
        afterEnv == IF envTried THEN <<"env">> ELSE <<>>
        envError == IF envTried THEN envResult.error ELSE NULL
        stored == getStoredCredentials(storage)
        storedResult == initSupabase(stored[1])
    IN  IF envTried /\ envResult.success
        THEN [isConnected |-> TRUE, error |-> NULL, localStorage |-> storage,
              supabaseInstance |-> envResult.instance, tried |-> afterEnv]
        ELSE IF stored # NULL
        THEN [isConnected |-> storedResult.success, error |-> envError,
              localStorage |-> storage,
              supabaseInstance |-> storedResult.instance,
              tried |-> afterEnv \o <<"stored">>]
        ELSE [isConnected |-> FALSE, error |-> envError, localStorage |-> storage,
              supabaseInstance |-> NULL, tried |-> afterEnv]

\* initConnection, the effect run once on mount: what it leaves in
\* isConnected, error, localStorage and supabaseInstance, and the sources it
\* called initSupabase for, in order
initConnection(envCreds, params, storage) ==
    LET envTried == Truthy(envCreds.url) /\ Truthy(envCreds.key)
        envResult == initSupabase(envCreds)
        afterEnv == IF envTried THEN <<"env">> ELSE <<>>
        envError == IF envTried THEN envResult.error ELSE NULL
        urlTried == Truthy(params.url) /\ Truthy(params.key)
        urlResult == initSupabase(params)
        afterUrl == IF urlTried THEN afterEnv \o <<"url">> ELSE afterEnv
        urlError == IF urlTried THEN urlResult.error ELSE envError
        stored == getStoredCredentials(storage)
        storedResult == initSupabase(stored[1])
    IN  IF envTried /\ envResult.success
        THEN [isConnected |-> TRUE, error |-> NULL, localStorage |-> storage,
              supabaseInstance |-> envResult.instance, tried |-> afterEnv]
        ELSE IF urlTried /\ urlResult.success
        THEN [isConnected |-> TRUE, error |-> envError,
              localStorage |-> saveCredentials(storage, params),
              supabaseInstance |-> urlResult.instance, tried |-> afterUrl]
        ELSE IF stored # NULL
        THEN [isConnected |-> storedResult.success, error |-> urlError,
              localStorage |-> storage,
              supabaseInstance |-> storedResult.instance,
              tried |-> afterUrl \o <<"stored">>]
        ELSE [isConnected |-> FALSE, error |-> urlError, localStorage |-> storage,
              supabaseInstance |-> NULL, tried |-> afterUrl]

\* a build with the URL and the key in its environment, opened without
\* parameters and with nothing stored
BuildEnv == [url |-> Str(<<"a", ":", "b">>), key |-> Str(<<"a">>)]
NoCredentials == [url |-> NULL, key |-> NULL]
EmptyStorage == [sb_url |-> NULL, sb_key |-> NULL]

(***************************************************************************)
(* State of the component.                                                 *)
(***************************************************************************)
VARIABLES
    licenses,           \* useState<License[]>: the list the store returned
    now,                \* the instant `new Date()` reads
    searchTerm,         \* useState('')
    filterStatus,       \* useState('all')
    sortConfig,         \* useState({field: 'expires_at', direction: 'asc'})
    filteredLicenses,   \* useMemo over licenses, searchTerm, filterStatus
    sortedLicenses,     \* useMemo over filteredLicenses, sortConfig
    currentPage,        \* useState(1)
    pageSize,           \* useState(10)
    renders,            \* the renders the last state change led to, in order:
                        \* currentPage, totalPages, paginatedLicenses of each
    stats,              \* useMemo over licenses
    table,              \* the licenses table of the remote store, by expires_at
    inflight,           \* remote calls awaited, in the order they were issued
    loading,            \* useState(false)
    error,              \* useState<string | null>(null)
    user,               \* useState<User | null>(null)
    isAddModalOpen,     \* useState(false)
    newLicense,         \* useState({ key: '', ... }): the key typed in the form
    lastOutcome,        \* the remote call that completed last, and how
    isConnected,        \* useState(false), true once a client was created
    adminEmails,        \* the adminEmails memo
    env,                \* VITE_SUPABASE_URL and VITE_SUPABASE_ANON_KEY of the build
    urlParams,          \* sb_url and sb_key of window.location.search
    localStorage,       \* the items sb_url and sb_key
    storedAtLoad,       \* localStorage as the page load found it
    supabaseInstance,   \* the client of services/supabase.ts, or null
    tried,              \* the sources initSupabase was called for on load
    adminEnv,           \* VITE_ADMIN_EMAILS of the build
    renderedAt,         \* the instant of the render that is on screen
    authSession,        \* the user of the auth client's session, or null
    authCalls,          \* calls to the auth service awaited, in order
    authLoading,        \* useState(false)
    authError,          \* useState<string | null>(null)
    loginForm,          \* useState({ email: '', ... }): the email typed
    alert,              \* the message of the alert() shown last, or null
    newestFetch         \* the fetch issued last: awaited, or answered (ok or not)

viewVars == <<licenses, now, searchTerm, filterStatus, sortConfig,
              filteredLicenses, sortedLicenses>>
pageVars == <<currentPage, pageSize, renders, stats, renderedAt>>

remoteVars == <<table, inflight, loading, error, lastOutcome>>
sessionVars == <<user, isAddModalOpen, newLicense>>
bootVars == <<isConnected, adminEmails, env, urlParams, localStorage, storedAtLoad,
             supabaseInstance, tried, adminEnv>>
authVars == <<authSession, authCalls, authLoading, authError, loginForm>>
logVars == <<alert, newestFetch>>

vars == <<viewVars, pageVars, remoteVars, sessionVars, bootVars, authVars, logVars>>

isAuthorized == isAuthorizedOf(user, adminEmails)

getSupabaseClient == supabaseInstance

\* the block with the dashboard, the toolbar and the table is rendered
DashboardShown == isConnected /\ user # NULL /\ isAuthorized

\* the render that is on screen
Shown == renders[Len(renders)]

\* the only place error is rendered: {error && <p>Lỗi: {error}</p>}, inside
\* the block that is rendered when !isConnected
ErrorBanner == IF ~isConnected /\ Truthy(error) THEN error ELSE NULL

\* a state change followed by its renders and their effects
Commit(sorted, size, resetDeps) ==
    LET rs == RenderLoop(sorted, size, currentPage, Shown, resetDeps)
    IN  /\ renders' = rs
        /\ currentPage' = rs[Len(rs)].currentPage
        /\ renderedAt' = now

\* select('*').order('expires_at', {ascending: true}) over a table whose
\* license_key is unique
StoreResponses ==
    {s \in UNION {[1..n -> LicenseRecords] : n \in 0..Cardinality(LicenseKeys)} :
        /\ \A i, j \in 1..Len(s) : i < j => s[i].license_key # s[j].license_key
        /\ \A i, j \in 1..Len(s) : i < j => s[i].expires_at <= s[j].expires_at}

\* the component once the fetch issued on mount has returned one of lists
InitWith(lists) ==
    /\ licenses \in lists
    /\ now \in Instants
    /\ searchTerm = <<>>
    /\ filterStatus = "all"
    /\ sortConfig = [field |-> "expires_at", direction |-> "asc"]
    /\ filteredLicenses = FilterLicenses(licenses, searchTerm, filterStatus, now)
    /\ sortedLicenses = SortLicenses(filteredLicenses, sortConfig, now)
    /\ currentPage = 1
    /\ pageSize = 10
    /\ renders = <<Snapshot(sortedLicenses, 1, 10)>>
    /\ stats = computeStats(licenses, now)
    /\ table = licenses
    /\ inflight = <<>>
    /\ loading = FALSE
    /\ error = NULL
    /\ user \in Users \ {NULL}
    /\ isAddModalOpen = FALSE
    /\ newLicense = <<>>
    /\ lastOutcome = [op |-> "select", ok |-> TRUE]
    /\ adminEnv = NULL
    /\ adminEmails = parseAdminEmails(adminEnv)
    /\ renderedAt = now
    /\ authSession = user
    /\ authCalls = <<>>
    /\ authLoading = FALSE
    /\ authError = NULL
    /\ loginForm = <<>>
    /\ alert = NULL
    /\ newestFetch = [awaited |-> FALSE, ok |-> TRUE]
    /\ env = BuildEnv
    /\ urlParams = NoCredentials
    /\ storedAtLoad = EmptyStorage
    /\ LET boot == initConnection(env, urlParams, storedAtLoad)
       IN  /\ isConnected = boot.isConnected
           /\ localStorage = boot.localStorage
           /\ supabaseInstance = boot.supabaseInstance
           /\ tried = boot.tried

Init == InitWith(StoreResponses)

\* onChange of the search box: setSearchTerm, then the render recomputes
\* filteredLicenses and, from it, sortedLicenses
SetSearchTerm(term) ==
    /\ DashboardShown
    /\ term # searchTerm
    /\ searchTerm' = term
    /\ filteredLicenses' = FilterLicenses(licenses, term, filterStatus, now)
    /\ sortedLicenses' = SortLicenses(filteredLicenses', sortConfig, now)
    /\ Commit(sortedLicenses', pageSize, TRUE)
    /\ stats' = statsMemo(stats, FALSE, licenses, filteredLicenses', now)
    /\ UNCHANGED <<licenses, now, filterStatus, sortConfig, pageSize>>
    /\ UNCHANGED <<remoteVars, sessionVars, bootVars>>
    /\ UNCHANGED <<authVars, logVars>>

\* onChange of the status select: setFilterStatus, then the render
SetFilterStatus(status) ==
    /\ DashboardShown
    /\ status # filterStatus
    /\ filterStatus' = status
    /\ filteredLicenses' = FilterLicenses(licenses, searchTerm, status, now)
    /\ sortedLicenses' = SortLicenses(filteredLicenses', sortConfig, now)
    /\ Commit(sortedLicenses', pageSize, TRUE)
    /\ stats' = statsMemo(stats, FALSE, licenses, filteredLicenses', now)
    /\ UNCHANGED <<licenses, now, searchTerm, sortConfig, pageSize>>
    /\ UNCHANGED <<remoteVars, sessionVars, bootVars>>
    /\ UNCHANGED <<authVars, logVars>>

\* click on a column header: the same field flips the direction, another
\* field starts ascending; the render recomputes sortedLicenses only
handleSort(field) ==
    /\ DashboardShown
    /\ sortConfig' =
          IF sortConfig.field = field
          THEN [field |-> field,
                direction |-> IF sortConfig.direction = "asc" THEN "desc" ELSE "asc"]
          ELSE [field |-> field, direction |-> "asc"]
    /\ sortedLicenses' = SortLicenses(filteredLicenses, sortConfig', now)
    /\ Commit(sortedLicenses', pageSize, FALSE)
    /\ stats' = statsMemo(stats, FALSE, licenses, filteredLicenses, now)
    /\ UNCHANGED <<licenses, now, searchTerm, filterStatus, filteredLicenses, pageSize>>
    /\ UNCHANGED <<remoteVars, sessionVars, bootVars>>
    /\ UNCHANGED <<authVars, logVars>>

\* a render that no paging state led to
Rerender == Commit(sortedLicenses, pageSize, FALSE)

\* onChange of the page-size select
SetPageSize(size) ==
    /\ DashboardShown
    /\ size # pageSize
    /\ pageSize' = size
    /\ Commit(sortedLicenses, size, TRUE)
    /\ stats' = statsMemo(stats, FALSE, licenses, filteredLicenses, now)
    /\ UNCHANGED <<viewVars, remoteVars, sessionVars, bootVars>>
    /\ UNCHANGED <<authVars, logVars>>

\* a setCurrentPage from a click, followed by its renders
GoToPage(page) ==
    LET rs == RenderLoop(sortedLicenses, pageSize, page, Shown, FALSE)
    IN  /\ renders' = rs
        /\ currentPage' = rs[Len(rs)].currentPage
        /\ renderedAt' = now

\* the Previous button, disabled on page 1
ClickPrevious ==
    /\ DashboardShown
    /\ currentPage # 1
    /\ GoToPage(IF currentPage - 1 > 1 THEN currentPage - 1 ELSE 1)
    /\ stats' = statsMemo(stats, FALSE, licenses, filteredLicenses, now)
    /\ UNCHANGED <<viewVars, pageSize, remoteVars, sessionVars, bootVars>>
    /\ UNCHANGED <<authVars, logVars>>

\* the Next button, disabled on the last page
ClickNext ==
    /\ DashboardShown
    /\ currentPage # Shown.totalPages
    /\ GoToPage(IF currentPage + 1 < Shown.totalPages
                THEN currentPage + 1 ELSE Shown.totalPages)
    /\ stats' = statsMemo(stats, FALSE, licenses, filteredLicenses, now)
    /\ UNCHANGED <<viewVars, pageSize, remoteVars, sessionVars, bootVars>>
    /\ UNCHANGED <<authVars, logVars>>

\* fetchLicenses up to its await, called from a closure that saw isAuthorized
\* as auth while queue is awaited: the request is sent and loading is set
fetchLicenses(auth, queue) ==
    /\ inflight' = IF auth /\ getSupabaseClient # NULL
                   THEN Append(queue, Request("select", <<>>, auth)) ELSE queue
    /\ loading' = IF auth /\ getSupabaseClient # NULL THEN TRUE ELSE loading
    /\ newestFetch' = IF auth /\ getSupabaseClient # NULL
                      THEN [awaited |-> TRUE, ok |-> FALSE]
                      ELSE newestFetch

\* the refresh button
ClickRefresh ==
    /\ DashboardShown
    /\ Len(inflight) < MaxInflight
    /\ fetchLicenses(isAuthorized, inflight)
    /\ Rerender
    /\ stats' = statsMemo(stats, FALSE, licenses, filteredLicenses, now)
    /\ UNCHANGED <<viewVars, pageSize, table, error, lastOutcome, sessionVars, bootVars>>
    /\ UNCHANGED <<authVars, alert>>

\* setLicenses(data) with a filter memo that is not recomputed
LoadLicensesStaleFilter(data) ==
    /\ licenses' = data
    /\ filteredLicenses' = filteredLicenses
    /\ sortedLicenses' = sortedLicenses
    /\ Commit(sortedLicenses', pageSize, FALSE)
    /\ stats' = statsMemo(stats, TRUE, data, filteredLicenses', now)

\* setLicenses(data) and the render it leads to
LoadLicenses(data) ==
    /\ licenses' = data
    /\ filteredLicenses' = FilterLicenses(data, searchTerm, filterStatus, now)
    /\ sortedLicenses' = SortLicenses(filteredLicenses', sortConfig, now)
    /\ Commit(sortedLicenses', pageSize, FALSE)
    /\ stats' = statsMemo(stats, TRUE, data, filteredLicenses', now)

\* the fetch issued last is the last select awaited; its answer is kept
IsNewestFetch(i) ==
    /\ newestFetch.awaited
    /\ \A j \in (i + 1)..Len(inflight) : inflight[j].op # "select"

\* fetchLicenses after its await: the store answers the i-th call with its
\* rows (ok) or with a failure
FetchResolves(i, ok) ==
    /\ i \in 1..Len(inflight)
    /\ inflight[i].op = "select"
    /\ inflight' = Remove(inflight, i)
    /\ lastOutcome' = [op |-> "select", ok |-> ok]
    /\ IF ok
       THEN /\ LoadLicenses(table)
            /\ error' = NULL
       ELSE /\ error' = Str(FailureMessage)
            /\ Rerender
            /\ stats' = statsMemo(stats, FALSE, licenses, filteredLicenses, now)
            /\ UNCHANGED <<licenses, filteredLicenses, sortedLicenses>>
    /\ loading' = FALSE
    /\ UNCHANGED <<now, searchTerm, filterStatus, sortConfig, pageSize, table>>
    /\ UNCHANGED <<sessionVars, bootVars>>
    /\ newestFetch' = IF IsNewestFetch(i)
                      THEN [awaited |-> FALSE, ok |-> ok]
                      ELSE newestFetch
    /\ UNCHANGED <<authVars, alert>>

\* the clients that activate licenses, and other operators, write to the table
TableChanges(rows) ==
    /\ rows # table
    /\ table' = rows
    /\ UNCHANGED <<viewVars, pageVars, inflight, loading, error, lastOutcome>>
    /\ UNCHANGED <<sessionVars, bootVars>>
    /\ UNCHANGED <<authVars, logVars>>

\* the new-license button of the toolbar
OpenAddModal ==
    /\ DashboardShown
    /\ ~isAddModalOpen
    /\ isAddModalOpen' = TRUE
    /\ Rerender
    /\ stats' = statsMemo(stats, FALSE, licenses, filteredLicenses, now)
    /\ UNCHANGED <<viewVars, pageSize, remoteVars, user, newLicense, bootVars>>
    /\ UNCHANGED <<authVars, logVars>>

\* onClose of the modal, which is rendered whenever isAddModalOpen
CloseAddModal ==
    /\ isAddModalOpen
    /\ isAddModalOpen' = FALSE
    /\ Rerender
    /\ stats' = statsMemo(stats, FALSE, licenses, filteredLicenses, now)
    /\ UNCHANGED <<viewVars, pageSize, remoteVars, user, newLicense, bootVars>>
    /\ UNCHANGED <<authVars, logVars>>

\* onChange of the key field of the form
SetNewLicenseKey(key) ==
    /\ isAddModalOpen
    /\ key # newLicense
    /\ newLicense' = key
    /\ Rerender
    /\ stats' = statsMemo(stats, FALSE, licenses, filteredLicenses, now)
    /\ UNCHANGED <<viewVars, pageSize, remoteVars, user, isAddModalOpen, bootVars>>
    /\ UNCHANGED <<authVars, logVars>>

\* a submit that is dropped while an insert of the same key is awaited
handleCreateLicenseOnce ==
    /\ isAddModalOpen
    /\ newLicense # <<>>
    /\ getSupabaseClient # NULL
    /\ Len(inflight) < MaxInflight
    /\ \A i \in 1..Len(inflight) :
          ~(inflight[i].op = "insert" /\ inflight[i].key = newLicense)
    /\ inflight' = Append(inflight, Request("insert", newLicense, isAuthorized))
    /\ UNCHANGED <<viewVars, pageVars, table, loading, error, lastOutcome>>
    /\ UNCHANGED <<sessionVars, bootVars>>
    /\ UNCHANGED <<authVars, logVars>>

\* handleCreateLicense up to its await: submit of the form, whose key field
\* is required; the insert is sent
handleCreateLicense ==
    /\ isAddModalOpen
    /\ newLicense # <<>>
    /\ getSupabaseClient # NULL
    /\ Len(inflight) < MaxInflight
    /\ inflight' = Append(inflight, Request("insert", newLicense, isAuthorized))
    /\ UNCHANGED <<viewVars, pageVars, table, loading, error, lastOutcome>>
    /\ UNCHANGED <<sessionVars, bootVars>>
    /\ UNCHANGED <<authVars, logVars>>

\* an alert that leaves err.message out
CreateAlertWithoutMessage(message) == <<"L">>

\* alert(`Lỗi khi tạo license: ${err.message}`), the prefix as one character
CreateAlert(message) == <<"L">> \o message

\* handleCreateLicense after its await, and on success a row added to the
\* local list as well
InsertResolvesOptimistic(i, ok) ==
    /\ i \in 1..Len(inflight)
    /\ inflight[i].op = "insert"
    /\ ok => inflight[i].key \notin KeysOf(table)
    /\ lastOutcome' = [op |-> "insert", ok |-> ok]
    /\ IF ok
       THEN /\ table' = StoreInsert(table, [license_key |-> inflight[i].key,
                                            expires_at |-> FormExpiry, hwid |-> NULL])
            /\ isAddModalOpen' = FALSE
            /\ newLicense' = <<>>
            /\ fetchLicenses(inflight[i].authorized, Remove(inflight, i))
            /\ alert' = alert
            /\ LoadLicenses(StoreInsert(licenses, [license_key |-> inflight[i].key,
                                                   expires_at |-> FormExpiry,
                                                   hwid |-> NULL]))
       ELSE /\ inflight' = Remove(inflight, i)
            /\ Rerender
            /\ stats' = statsMemo(stats, FALSE, licenses, filteredLicenses, now)
            /\ UNCHANGED <<licenses, filteredLicenses, sortedLicenses>>
            /\ alert' = Str(CreateAlert(FailureMessage))
            /\ UNCHANGED <<table, isAddModalOpen, newLicense, loading, newestFetch>>
    /\ UNCHANGED <<now, searchTerm, filterStatus, sortConfig, pageSize>>
    /\ UNCHANGED <<error, user, bootVars>>
    /\ UNCHANGED authVars

\* handleCreateLicense after its await: the store, which refuses a key it
\* holds, answers the i-th call; on success the modal is closed, the form is
\* cleared and fetchLicenses is called; on failure an alert is shown
InsertResolves(i, ok) ==
    /\ i \in 1..Len(inflight)
    /\ inflight[i].op = "insert"
    /\ ok => inflight[i].key \notin KeysOf(table)
    /\ lastOutcome' = [op |-> "insert", ok |-> ok]
    /\ IF ok
       THEN /\ table' = StoreInsert(table, [license_key |-> inflight[i].key,
                                            expires_at |-> FormExpiry, hwid |-> NULL])
            /\ isAddModalOpen' = FALSE
            /\ newLicense' = <<>>
            /\ fetchLicenses(inflight[i].authorized, Remove(inflight, i))
            /\ alert' = alert
       ELSE /\ inflight' = Remove(inflight, i)
            /\ alert' = Str(CreateAlert(FailureMessage))
            /\ UNCHANGED <<table, isAddModalOpen, newLicense, loading, newestFetch>>
    /\ Rerender
    /\ stats' = statsMemo(stats, FALSE, licenses, filteredLicenses, now)
    /\ UNCHANGED <<viewVars, pageSize, error, user, bootVars>>
    /\ UNCHANGED authVars

\* the row of the page on screen that has this key
ShownRow(key) ==
    LET HasKey(r) == r.license_key = key
    IN  SelectSeq(Shown.paginatedLicenses, HasKey)

\* handleResetHWID up to its await: the unlock button of a row, disabled
\* when the row has no hwid; after confirm() the update is sent
handleResetHWID(key, confirmed) ==
    /\ DashboardShown
    /\ ShownRow(key) # <<>>
    /\ Truthy(ShownRow(key)[1].hwid)
    /\ isAuthorized
    /\ getSupabaseClient # NULL
    /\ Len(inflight) < MaxInflight
    /\ inflight' = IF confirmed
                   THEN Append(inflight, Request("update", key, isAuthorized))
                   ELSE inflight
    /\ UNCHANGED <<viewVars, pageVars, table, loading, error, lastOutcome>>
    /\ UNCHANGED <<sessionVars, bootVars>>
    /\ UNCHANGED <<authVars, logVars>>

\* handleDelete up to its await: the delete button of a row; after confirm()
\* the delete is sent
handleDelete(key, confirmed) ==
    /\ DashboardShown
    /\ ShownRow(key) # <<>>
    /\ isAuthorized
    /\ getSupabaseClient # NULL
    /\ Len(inflight) < MaxInflight
    /\ inflight' = IF confirmed
                   THEN Append(inflight, Request("delete", key, isAuthorized))
                   ELSE inflight
    /\ UNCHANGED <<viewVars, pageVars, table, loading, error, lastOutcome>>
    /\ UNCHANGED <<sessionVars, bootVars>>
    /\ UNCHANGED <<authVars, logVars>>

\* handleResetHWID and handleDelete after their await: the store answers the
\* i-th call; on success fetchLicenses is called, on failure an alert is shown
WriteResolves(i, ok) ==
    /\ i \in 1..Len(inflight)
    /\ inflight[i].op \in {"update", "delete"}
    /\ lastOutcome' = [op |-> inflight[i].op, ok |-> ok]
    /\ IF ok
       THEN /\ table' = IF inflight[i].op = "update"
                        THEN StoreUnbind(table, inflight[i].key)
                        ELSE StoreDelete(table, inflight[i].key)
            /\ fetchLicenses(inflight[i].authorized, Remove(inflight, i))
            /\ alert' = alert
       ELSE /\ inflight' = Remove(inflight, i)
            /\ alert' = Str(FailureMessage)
            /\ UNCHANGED <<table, loading, newestFetch>>
    /\ Rerender
    /\ stats' = statsMemo(stats, FALSE, licenses, filteredLicenses, now)
    /\ UNCHANGED <<viewVars, pageSize, error, sessionVars, bootVars>>
    /\ UNCHANGED authVars

\* the onAuthStateChange callback, subscribed to once connected:
\* setUser(session?.user ?? null); when that makes isAuthorized true the
\* effect over [isConnected, isAuthorized] calls fetchLicenses
AuthStateChanges(session) ==
    /\ isConnected
    /\ getSupabaseClient # NULL
    /\ session # user
    /\ user' = session
    /\ IF isAuthorizedOf(session, adminEmails) /\ ~isAuthorized
       THEN /\ Len(inflight) < MaxInflight
            /\ fetchLicenses(TRUE, inflight)
       ELSE UNCHANGED <<inflight, loading, newestFetch>>
    /\ Rerender
    /\ stats' = statsMemo(stats, FALSE, licenses, filteredLicenses, now)
    /\ UNCHANGED <<viewVars, pageSize, table, error, lastOutcome>>
    /\ UNCHANGED <<isAddModalOpen, newLicense, bootVars>>
    /\ authSession' = session
    /\ UNCHANGED <<authCalls, authLoading, authError, loginForm, alert>>

\* onChange of the email field of the login form, shown when there is no user
SetLoginEmail(email) ==
    /\ isConnected
    /\ user = NULL
    /\ email # loginForm
    /\ loginForm' = email
    /\ Rerender
    /\ stats' = statsMemo(stats, FALSE, licenses, filteredLicenses, now)
    /\ UNCHANGED <<viewVars, pageSize, remoteVars, sessionVars, bootVars, logVars>>
    /\ UNCHANGED <<authSession, authCalls, authLoading, authError>>

\* handleLogin up to its await: submit of the login form, whose email field
\* is required and whose button is disabled while authLoading
handleLogin ==
    /\ isConnected
    /\ user = NULL
    /\ ~authLoading
    /\ loginForm # <<>>
    /\ getSupabaseClient # NULL
    /\ Len(authCalls) < MaxAuthCalls
    /\ authLoading' = TRUE
    /\ authError' = NULL
    /\ authCalls' = Append(authCalls,
                           AuthCall("signIn", toLowerCase(trim(loginForm)), TRUE))
    /\ Rerender
    /\ stats' = statsMemo(stats, FALSE, licenses, filteredLicenses, now)
    /\ UNCHANGED <<viewVars, pageSize, remoteVars, sessionVars, bootVars, logVars>>
    /\ UNCHANGED <<authSession, loginForm>>

\* setUser of the auth listener, and the fetch effect when that makes
\* isAuthorized true
SetUser(u) ==
    /\ user' = u
    /\ IF isAuthorizedOf(u, adminEmails) /\ ~isAuthorized
       THEN /\ Len(inflight) < MaxInflight
            /\ fetchLicenses(TRUE, inflight)
       ELSE UNCHANGED <<inflight, loading, newestFetch>>

\* handleLogin after its await, signing out no account
SignInResolvesKeepingSession(i, ok, account) ==
    /\ i \in 1..Len(authCalls)
    /\ authCalls[i].op = "signIn"
    /\ ok => toLowerCase(account) = authCalls[i].email
    /\ lastOutcome' = [op |-> "signIn", ok |-> ok]
    /\ IF ok
       THEN /\ authSession' = Str(account)
            /\ SetUser(Str(account))
            /\ authCalls' = Remove(authCalls, i)
            /\ authLoading' = FALSE
            /\ authError' = authError
       ELSE /\ authError' = Str(FailureMessage)
            /\ authCalls' = Remove(authCalls, i)
            /\ authLoading' = FALSE
            /\ UNCHANGED <<authSession, user, inflight, loading, newestFetch>>
    /\ Rerender
    /\ stats' = statsMemo(stats, FALSE, licenses, filteredLicenses, now)
    /\ UNCHANGED <<viewVars, pageSize, table, error, isAddModalOpen, newLicense>>
    /\ UNCHANGED <<bootVars, loginForm, alert>>

\* handleLogin after its await: the auth service answers the i-th call with
\* a failure, or with the session of the account of that email, of which the
\* listener is told; an account that adminEmails leaves out is signed out
SignInResolves(i, ok, account) ==
    /\ i \in 1..Len(authCalls)
    /\ authCalls[i].op = "signIn"
    /\ ok => toLowerCase(account) = authCalls[i].email
    /\ lastOutcome' = [op |-> "signIn", ok |-> ok]
    /\ IF ok
       THEN /\ authSession' = Str(account)
            /\ SetUser(Str(account))
            /\ IF /\ toLowerCase(account) # <<>>
                  /\ Len(adminEmails) > 0
                  /\ ~\E k \in 1..Len(adminEmails) :
                         adminEmails[k] = toLowerCase(account)
               THEN /\ authError' = Str(UnauthorizedMessage)
                    /\ authCalls' = Append(Remove(authCalls, i),
                                           AuthCall("signOut", <<>>, TRUE))
                    /\ authLoading' = authLoading
               ELSE /\ authCalls' = Remove(authCalls, i)
                    /\ authLoading' = FALSE
                    /\ authError' = authError
       ELSE /\ authError' = Str(FailureMessage)
            /\ authCalls' = Remove(authCalls, i)
            /\ authLoading' = FALSE
            /\ UNCHANGED <<authSession, user, inflight, loading, newestFetch>>
    /\ Rerender
    /\ stats' = statsMemo(stats, FALSE, licenses, filteredLicenses, now)
    /\ UNCHANGED <<viewVars, pageSize, table, error, isAddModalOpen, newLicense>>
    /\ UNCHANGED <<bootVars, loginForm, alert>>

\* handleLogout up to its await: the logout button of the header, rendered
\* when there is a user
handleLogout ==
    /\ user # NULL
    /\ getSupabaseClient # NULL
    /\ Len(authCalls) < MaxAuthCalls
    /\ authCalls' = Append(authCalls, AuthCall("signOut", <<>>, FALSE))
    /\ UNCHANGED <<viewVars, pageVars, remoteVars, sessionVars, bootVars, logVars>>
    /\ UNCHANGED <<authSession, authLoading, authError, loginForm>>

\* signOut completes: the session is invalidated and the listener is told;
\* handleLogin goes to its finally, handleLogout clears the login form
SignOutResolves(i) ==
    /\ i \in 1..Len(authCalls)
    /\ authCalls[i].op = "signOut"
    /\ authCalls' = Remove(authCalls, i)
    /\ authSession' = NULL
    /\ user' = NULL
    /\ lastOutcome' = [op |-> "signOut", ok |-> TRUE]
    /\ IF authCalls[i].login
       THEN /\ authLoading' = FALSE
            /\ loginForm' = loginForm
       ELSE /\ loginForm' = <<>>
            /\ authLoading' = authLoading
    /\ Rerender
    /\ stats' = statsMemo(stats, FALSE, licenses, filteredLicenses, now)
    /\ UNCHANGED <<viewVars, pageSize, table, inflight, loading, error>>
    /\ UNCHANGED <<isAddModalOpen, newLicense, bootVars, authError, logVars>>

\* the state of a page that has just been loaded with params in its URL, for
\* a build with envCreds, finding storage: every useState at its initial
\* value, the module of the client afresh, and initConnection run by the
\* mount effect
Fresh(envCreds, params, storage, t) ==
    LET boot == initConnection(envCreds, params, storage)
    IN  [urlParams |-> params,
         storedAtLoad |-> storage,
         isConnected |-> boot.isConnected,
         error |-> boot.error,
         localStorage |-> boot.localStorage,
         supabaseInstance |-> boot.supabaseInstance,
         tried |-> boot.tried,
         licenses |-> <<>>, filteredLicenses |-> <<>>, sortedLicenses |-> <<>>,
         searchTerm |-> <<>>,
         filterStatus |-> "all",
         sortConfig |-> [field |-> "expires_at", direction |-> "asc"],
         currentPage |-> 1,
         pageSize |-> 10,
         renders |-> <<Snapshot(<<>>, 1, 10)>>,
         stats |-> computeStats(<<>>, t),
         inflight |-> <<>>,
         loading |-> FALSE,
         user |-> NULL,
         isAddModalOpen |-> FALSE,
         newLicense |-> <<>>,
         lastOutcome |-> [op |-> "none", ok |-> FALSE]]

\* the page is loaded again, with params in its URL: localStorage stays
LoadPage(params) ==
    \E fresh \in {Fresh(env, params, localStorage, now)} :
        /\ urlParams' = fresh.urlParams
        /\ storedAtLoad' = fresh.storedAtLoad
        /\ isConnected' = fresh.isConnected
        /\ error' = fresh.error
        /\ localStorage' = fresh.localStorage
        /\ supabaseInstance' = fresh.supabaseInstance
        /\ tried' = fresh.tried
        /\ licenses' = fresh.licenses
        /\ filteredLicenses' = fresh.filteredLicenses
        /\ sortedLicenses' = fresh.sortedLicenses
        /\ searchTerm' = fresh.searchTerm
        /\ filterStatus' = fresh.filterStatus
        /\ sortConfig' = fresh.sortConfig
        /\ currentPage' = fresh.currentPage
        /\ pageSize' = fresh.pageSize
        /\ renders' = fresh.renders
        /\ stats' = fresh.stats
        /\ inflight' = fresh.inflight
        /\ loading' = fresh.loading
        /\ user' = fresh.user
        /\ isAddModalOpen' = fresh.isAddModalOpen
        /\ newLicense' = fresh.newLicense
        /\ lastOutcome' = fresh.lastOutcome
        /\ renderedAt' = now
        /\ authCalls' = <<>>
        /\ authLoading' = FALSE
        /\ authError' = NULL
        /\ loginForm' = <<>>
        /\ alert' = NULL
        /\ newestFetch' = [awaited |-> FALSE, ok |-> FALSE]
        /\ UNCHANGED <<now, table, env, adminEmails, adminEnv, authSession>>

NextFilter ==
    \/ \E term \in SearchTerms : SetSearchTerm(term)
    \/ \E status \in FilterStatuses : SetFilterStatus(status)

NextSort == \E field \in SortFields : handleSort(field)

\* lists long enough for three pages
Letters == <<"a", "A", "b", "B">>
KeyOf(i) ==
    <<Letters[(i \div 16) + 1], Letters[((i \div 4) % 4) + 1], Letters[(i % 4) + 1]>>

\* n unbound licenses in the order of the store, the first k expiring at 0
PageRows(n, k) ==
    [i \in 1..n |-> [license_key |-> KeyOf(i - 1),
                     expires_at |-> IF i <= k THEN 0 ELSE 7 * MsPerDay + MaxTicks + 1,
                     hwid |-> NULL]]

PageResponses == {PageRows(0, 0), PageRows(11, 5), PageRows(MaxRows, 11)}

InitPage ==
    /\ InitWith(PageResponses)
    /\ now = MaxTicks

NextPage ==
    \/ NextFilter
    \/ NextSort
    \/ \E size \in PageSizes : SetPageSize(size)
    \/ ClickPrevious
    \/ ClickNext
    \/ ClickRefresh
    \/ \E i \in 1..MaxInflight : FetchResolves(i, TRUE)
    \/ \E rows \in PageResponses : TableChanges(rows)

\* the pagination, over long lists, every view change and refreshes
SpecPage == InitPage /\ [][NextPage]_vars

\* the rows of a table with one key, unbound or bound
RemoteRows ==
    {[license_key |-> <<"a">>, expires_at |-> FormExpiry, hwid |-> h] :
        h \in {NULL, Str(<<"a", "B">>)}}
RemoteTables == {<<>>} \cup {<<r>> : r \in RemoteRows}

InitRemote ==
    /\ InitWith(RemoteTables)
    /\ now = MaxTicks

NextRemote ==
    \/ ClickRefresh
    \/ \E i \in 1..MaxInflight, ok \in BOOLEAN : FetchResolves(i, ok)
    \/ OpenAddModal
    \/ CloseAddModal
    \/ \E key \in FormKeys \cup {<<>>} : SetNewLicenseKey(key)
    \/ handleCreateLicense
    \/ \E i \in 1..MaxInflight, ok \in BOOLEAN : InsertResolves(i, ok)
    \/ \E key \in FormKeys, confirmed \in BOOLEAN : handleResetHWID(key, confirmed)
    \/ \E key \in FormKeys, confirmed \in BOOLEAN : handleDelete(key, confirmed)
    \/ \E i \in 1..MaxInflight, ok \in BOOLEAN : WriteResolves(i, ok)
    \/ \E session \in Users : AuthStateChanges(session)
    \/ \E rows \in RemoteTables : TableChanges(rows)

\* the remote calls: refresh, create, unlock, delete and session changes
SpecRemote == InitRemote /\ [][NextRemote]_vars

\* a first load, of any build, with any parameters and anything stored
InitLoaded(envs, paramss, storages, admins, sessions, tables) ==
    /\ now = MaxTicks
    /\ table \in tables
    /\ adminEnv \in admins
    /\ adminEmails = parseAdminEmails(adminEnv)
    /\ env \in envs
    /\ authSession \in sessions
    /\ \E params \in paramss, storage \in storages :
          \E fresh \in {Fresh(env, params, storage, now)} :
              /\ urlParams = fresh.urlParams
              /\ storedAtLoad = fresh.storedAtLoad
              /\ isConnected = fresh.isConnected
              /\ error = fresh.error
              /\ localStorage = fresh.localStorage
              /\ supabaseInstance = fresh.supabaseInstance
              /\ tried = fresh.tried
              /\ licenses = fresh.licenses
              /\ filteredLicenses = fresh.filteredLicenses
              /\ sortedLicenses = fresh.sortedLicenses
              /\ searchTerm = fresh.searchTerm
              /\ filterStatus = fresh.filterStatus
              /\ sortConfig = fresh.sortConfig
              /\ currentPage = fresh.currentPage
              /\ pageSize = fresh.pageSize
              /\ renders = fresh.renders
              /\ stats = fresh.stats
              /\ inflight = fresh.inflight
              /\ loading = fresh.loading
              /\ user = fresh.user
              /\ isAddModalOpen = fresh.isAddModalOpen
              /\ newLicense = fresh.newLicense
              /\ lastOutcome = fresh.lastOutcome
    /\ renderedAt = now
    /\ authCalls = <<>>
    /\ authLoading = FALSE
    /\ authError = NULL
    /\ loginForm = <<>>
    /\ alert = NULL
    /\ newestFetch = [awaited |-> FALSE, ok |-> FALSE]

InitBoot == InitLoaded(Credentials, Credentials, Storages, {NULL}, Users, {<<>>})

NextBoot ==
    \/ \E params \in Credentials : LoadPage(params)
    \/ \E session \in Users : AuthStateChanges(session)

\* the connection made on load, over every source of credentials
SpecBoot == InitBoot /\ [][NextBoot]_vars

\* the table of the store while operators sign in and out
AuthTable == <<[license_key |-> <<"a">>, expires_at |-> FormExpiry, hwid |-> NULL]>>

\* a load that connects with the credentials of the build, for every value
\* of the allow-list and every session the auth client has kept
InitAuth ==
    InitLoaded({BuildEnv}, {NoCredentials}, {EmptyStorage}, AdminEnvValues,
               AuthUsers, {AuthTable})

NextAuth ==
    \/ AuthStateChanges(authSession)
    \/ \E email \in LoginEmails : SetLoginEmail(email)
    \/ handleLogin
    \/ \E i \in 1..MaxAuthCalls, ok \in BOOLEAN, account \in AuthEmails :
          SignInResolves(i, ok, account)
    \/ handleLogout
    \/ \E i \in 1..MaxAuthCalls : SignOutResolves(i)
    \/ \E i \in 1..MaxInflight : FetchResolves(i, TRUE)

\* signing in and out, over every allow-list
SpecAuth == InitAuth /\ [][NextAuth]_vars

\* the wall clock advances: new Date() gives a later instant from now on;
\* nothing is rendered
Tick ==
    /\ now < MaxTicks
    /\ now' = now + 1
    /\ UNCHANGED <<licenses, searchTerm, filterStatus, sortConfig, filteredLicenses,
                   sortedLicenses>>
    /\ UNCHANGED <<pageVars, remoteVars, sessionVars, bootVars, authVars, logVars>>

\* the lists of at most one record
ClockResponses == {s \in StoreResponses : Len(s) <= 1}

InitClock == InitWith(ClockResponses)

NextClock == Tick \/ NextFilter \/ NextSort

\* the filter and the sort while the clock advances
SpecClock == InitClock /\ [][NextClock]_vars

Next ==
    NextFilter \/ NextSort \/ NextPage \/ NextRemote \/ NextBoot \/ NextAuth \/ NextClock

\* every handler, from the state after the first fetch
Spec == Init /\ [][Next]_vars

\* the filter stage alone, over every list, instant, term and status filter
SpecFilter == Init /\ [][NextFilter]_vars

\* the sort stage alone, over every list, instant, field and direction
SpecSort == Init /\ [][NextSort]_vars

(***************************************************************************)
(* Helpers of the properties.                                              *)
(***************************************************************************)
Chars == {"a", "A", "b", "B"}
\* every string of at most two characters
ShortStrings == {<<>>} \cup {<<c>> : c \in Chars} \cup {<<c, d>> : c \in Chars, d \in Chars}

\* two characters are the same letter, whatever their case
SameLetter(c, d) == c = d \/ {c, d} \in {{"a", "A"}, {"b", "B"}}

\* t occurs in s at some offset, letter by letter, ignoring case
OccursIgnoringCase(s, t) ==
    \E off \in 0..(Len(s) - Len(t)) : \A i \in 1..Len(t) : SameLetter(s[off + i], t[i])

Range(list) == {list[i] : i \in 1..Len(list)}
Pos(list, r) == CHOOSE k \in 1..Len(list) : list[k] = r
StatusesOf(list) == [i \in 1..Len(list) |-> getLicenseStatus(list[i], now)]

\* the condition of each status case, on the classifier's two flags
StatusCase(name, l, t) ==
    CASE name = "expired" -> isExpired(l, t)
      [] name = "expiring" -> isExpiringSoon(l, t)
      [] name = "active" -> ~isExpired(l, t) /\ ~isExpiringSoon(l, t) /\ Truthy(l.hwid)
      [] OTHER -> ~isExpired(l, t) /\ ~isExpiringSoon(l, t) /\ ~Truthy(l.hwid)

\* C1: at every instant every record falls under exactly one of the four
\* status cases (expired, expiring, active, available), and the classifier
\* answers with that case
StatusIsTotalAndExclusive ==
    \A l \in Range(licenses) :
        /\ getLicenseStatus(l, now) \in StatusNames
        /\ Cardinality({name \in StatusNames : StatusCase(name, l, now)}) = 1
        /\ StatusCase(getLicenseStatus(l, now), l, now)

\* expiry before, equal to and after now, a null and a bound hwid, and
\* three statuses in one list
StatusCasesCovered ==
    /\ \E l \in Range(licenses) : l.expires_at < now /\ l.hwid # NULL
    /\ \E l \in Range(licenses) : l.expires_at = now /\ l.hwid = NULL
    /\ \E l \in Range(licenses) : l.expires_at > now /\ l.hwid # NULL
    /\ Cardinality({getLicenseStatus(l, now) : l \in Range(licenses)}) = 3

\* the decision table of the statuses
TableStatus(l, t) ==
    IF l.expires_at < t THEN "expired"
    ELSE IF l.expires_at - t <= 7 * MsPerDay THEN "expiring"
    ELSE IF l.hwid # NULL THEN "active"
    ELSE "available"

\* C2: the classifier and the row badge follow the decision table: expired
\* iff expires_at < now; expiring iff 0 <= expires_at - now <= 7 days;
\* otherwise active iff hwid is non-null (the empty string included) and
\* available iff hwid is null
StatusFollowsDecisionTable ==
    \A l \in Range(licenses) :
        /\ getLicenseStatus(l, now) = TableStatus(l, now)
        /\ rowBadge(l, now) = TableStatus(l, now)

\* what each status filter keeps, in terms of the classifier
ClassifierKeeps(status, l, t) ==
    CASE status = "all" -> TRUE
      [] status = "active" -> getLicenseStatus(l, t) \in {"active", "expiring", "available"}
      [] status = "expired" -> getLicenseStatus(l, t) = "expired"
      [] OTHER -> getLicenseStatus(l, t) = "expiring"

\* C3: the status predicate of the filter agrees with the classifier at the
\* same instant: 'all' keeps every record, 'active' every record not
\* classified expired, 'expired' and 'expiring' the records so classified
StatusFilterAgreesWithClassifier ==
    /\ \A l \in Range(licenses) : \A status \in FilterStatuses :
          matchesStatus(l, status, now) <=> ClassifierKeeps(status, l, now)
    /\ Range(filteredLicenses) =
          {l \in Range(licenses) :
              matchesSearch(l, searchTerm) /\ ClassifierKeeps(filterStatus, l, now)}

\* under 'active' an expiring and an available record are shown and an
\* expired one is not
ActiveFilterShowsNotExpired ==
    /\ filterStatus = "active"
    /\ searchTerm = <<>>
    /\ \E l \in Range(licenses) \ Range(filteredLicenses) : getLicenseStatus(l, now) = "expired"
    /\ \E l \in Range(filteredLicenses) : getLicenseStatus(l, now) = "expiring"
    /\ \E l \in Range(filteredLicenses) : getLicenseStatus(l, now) = "available"

\* the search predicate, letter by letter
SearchSpec(l, term) ==
    \/ OccursIgnoringCase(l.license_key, term)
    \/ (l.hwid # NULL /\ OccursIgnoringCase(l.hwid[1], term))

\* C4: a record satisfies the search predicate iff the term occurs, ignoring
\* case, in its license_key, or its hwid is present and the term occurs in
\* it; every record satisfies the empty term
SearchIsCaseInsensitiveSubstring ==
    /\ \A l \in Range(licenses) : \A term \in ShortStrings :
          matchesSearch(l, term) <=> SearchSpec(l, term)
    /\ \A l \in Range(licenses) : matchesSearch(l, <<>>)
    /\ filterStatus = "all" =>
          Range(filteredLicenses) = {l \in Range(licenses) : SearchSpec(l, searchTerm)}

\* a term in another case than the key it matches, a record found through
\* its hwid alone, and a record not found
SearchMatchesKeyAndHwid ==
    /\ searchTerm = <<"a", "B">>
    /\ filterStatus = "all"
    /\ \E l \in Range(filteredLicenses) : l.license_key = <<"A", "b">> /\ l.hwid = NULL
    /\ \E l \in Range(filteredLicenses) : l.license_key = <<"a">> /\ l.hwid = Str(<<"a", "B">>)
    /\ \E l \in Range(licenses) \ Range(filteredLicenses) : l.hwid = Str(<<>>)

\* the positions of the raw list that pass both predicates, and the k-th of them
KeptIndices ==
    {i \in 1..Len(licenses) :
        matchesSearch(licenses[i], searchTerm) /\ matchesStatus(licenses[i], filterStatus, now)}

NthKept(k) == CHOOSE i \in KeptIndices : Cardinality({j \in KeptIndices : j < i}) = k - 1

\* C5: the filter output is the raw list with the records that fail the
\* search predicate or the status predicate left out, the others in their
\* raw order, each once
FilterIsOrderedSubsequence ==
    /\ Len(filteredLicenses) = Cardinality(KeptIndices)
    /\ \A k \in 1..Len(filteredLicenses) : filteredLicenses[k] = licenses[NthKept(k)]

\* the first and third of three records kept, the second left out for
\* failing exactly one of the two predicates
FilterKeepsOrder ==
    /\ Len(licenses) = 3
    /\ KeptIndices = {1, 3}
    /\ searchTerm # <<>>
    /\ filterStatus # "all"
    /\ matchesSearch(licenses[2], searchTerm) # matchesStatus(licenses[2], filterStatus, now)

\* C6: filtering the filter's output again, with the same term, status
\* filter and instant, gives the same list
FilterIsIdempotent ==
    FilterLicenses(filteredLicenses, searchTerm, filterStatus, now) = filteredLicenses

\* a filter that dropped some records and kept others
FilterDroppedSome ==
    /\ Len(filteredLicenses) = 2
    /\ Len(licenses) = 3
    /\ searchTerm # <<>>
    /\ filterStatus = "expiring"

(***************************************************************************)
(* Sort keys as the properties read them.                                  *)
(***************************************************************************)
StatusRank(status) ==
    CASE status = "available" -> 0
      [] status = "active" -> 1
      [] status = "expiring" -> 2
      [] OTHER -> 3

\* an absent hwid sorts as the empty string
HwidText(h) == IF h = NULL THEN <<>> ELSE h[1]

\* negative, zero or positive as a's key is before, equal to or after b's
\* in ascending order
KeyCmp(a, b, field, t) ==
    CASE field = "license_key" -> localeCompare(a.license_key, b.license_key)
      [] field = "hwid" -> localeCompare(HwidText(a.hwid), HwidText(b.hwid))
      [] field = "status" ->
            StatusRank(getLicenseStatus(a, t)) - StatusRank(getLicenseStatus(b, t))
      [] OTHER -> a.expires_at - b.expires_at

Reverse(list) == [i \in 1..Len(list) |-> list[Len(list) + 1 - i]]

\* C7: for every field and direction the sorted list holds the records of
\* the filtered list, each once, in the order of the chosen key, records
\* with equal keys in their order in the filtered list; the filtered list
\* is still what the filter returned
SortIsStablePermutation ==
    /\ Len(sortedLicenses) = Len(filteredLicenses)
    /\ \A l \in Range(filteredLicenses) :
          Cardinality({i \in 1..Len(sortedLicenses) : sortedLicenses[i] = l})
            = Cardinality({i \in 1..Len(filteredLicenses) : filteredLicenses[i] = l})
    /\ \A i, j \in 1..Len(sortedLicenses) : i < j =>
          LET c == KeyCmp(sortedLicenses[i], sortedLicenses[j], sortConfig.field, now)
          IN  /\ sortConfig.direction = "asc" => c <= 0
              /\ sortConfig.direction = "desc" => c >= 0
              /\ c = 0 => Pos(filteredLicenses, sortedLicenses[i])
                            < Pos(filteredLicenses, sortedLicenses[j])
    /\ filteredLicenses = FilterLicenses(licenses, searchTerm, filterStatus, now)

\* a descending sort by hwid that moved records and met a tie
SortMovedRecordsKeepingTies ==
    /\ sortConfig = [field |-> "hwid", direction |-> "desc"]
    /\ Len(sortedLicenses) = 3
    /\ sortedLicenses # filteredLicenses
    /\ sortedLicenses[2].hwid = NULL
    /\ sortedLicenses[3].hwid = Str(<<>>)

\* C8: sorting by status ascending orders the records by the rank
\* available(0) < active(1) < expiring(2) < expired(3), records of equal
\* status in input order; statuses [expired, available, active] come out
\* as [available, active, expired]
StatusSortFollowsRank ==
    sortConfig = [field |-> "status", direction |-> "asc"] =>
        /\ \A i, j \in 1..Len(sortedLicenses) : i < j =>
              LET ri == StatusRank(getLicenseStatus(sortedLicenses[i], now))
                  rj == StatusRank(getLicenseStatus(sortedLicenses[j], now))
              IN  /\ ri <= rj
                  /\ ri = rj => Pos(filteredLicenses, sortedLicenses[i])
                                  < Pos(filteredLicenses, sortedLicenses[j])
        /\ StatusesOf(filteredLicenses) = <<"expired", "available", "active">> =>
              StatusesOf(sortedLicenses) = <<"available", "active", "expired">>

\* the example of the claim
StatusSortExample ==
    /\ sortConfig = [field |-> "status", direction |-> "asc"]
    /\ StatusesOf(filteredLicenses) = <<"expired", "available", "active">>
    /\ StatusesOf(sortedLicenses) = <<"available", "active", "expired">>

\* C9: for every field, two records with distinct keys stand in the
\* descending result in the reverse of their ascending order, and two
\* records with equal keys stand in input order in both results
DescendingNegatesComparator ==
    LET asc == SortLicenses(filteredLicenses,
                   [field |-> sortConfig.field, direction |-> "asc"], now)
        desc == SortLicenses(filteredLicenses,
                   [field |-> sortConfig.field, direction |-> "desc"], now)
    IN  /\ sortedLicenses = IF sortConfig.direction = "asc" THEN asc ELSE desc
        /\ \A a, b \in Range(filteredLicenses) :
              Pos(filteredLicenses, a) < Pos(filteredLicenses, b) =>
                 IF KeyCmp(a, b, sortConfig.field, now) = 0
                 THEN Pos(asc, a) < Pos(asc, b) /\ Pos(desc, a) < Pos(desc, b)
                 ELSE Pos(asc, a) < Pos(asc, b) <=> Pos(desc, b) < Pos(desc, a)

\* a descending result that is not the ascending result reversed
DescendingKeepsTieOrder ==
    /\ sortConfig = [field |-> "status", direction |-> "desc"]
    /\ Len(sortedLicenses) = 3
    /\ sortedLicenses #
          Reverse(SortLicenses(filteredLicenses, [field |-> "status", direction |-> "asc"], now))
    /\ Cardinality(Range(StatusesOf(sortedLicenses))) = 2

\* C10: sorting the sorted list again with the same field and direction
\* leaves its order unchanged
SortIsIdempotent ==
    SortLicenses(sortedLicenses, sortConfig, now) = sortedLicenses

\* a sort by license_key that moved records
SortByKeyMovedRecords ==
    /\ sortConfig.field = "license_key"
    /\ Len(sortedLicenses) = 3
    /\ sortedLicenses # filteredLicenses
    /\ sortedLicenses # Reverse(filteredLicenses)

(***************************************************************************)
(* Pagination properties.                                                  *)
(***************************************************************************)
\* the least number of pages of s rows, and at least one, that hold n rows
LeastPages(n, s) ==
    CHOOSE p \in 1..(n + 1) : p * s >= n /\ (p > 1 => (p - 1) * s < n)

RECURSIVE ConcatPages(_, _, _)
\* pages 1..p of list, one after the other
ConcatPages(list, size, p) ==
    IF p = 0 THEN <<>>
    ELSE ConcatPages(list, size, p - 1) \o paginate(list, p, size)

\* rows start+1 .. start+size of full, as far as full goes
RowsFrom(full, start, size) ==
    LET rest == IF Len(full) > start THEN Len(full) - start ELSE 0
        k == IF rest < size THEN rest ELSE size
    IN  [j \in 1..k |-> full[start + j]]

\* C11: totalPages is max(1, ceil(n / s)) for every number n >= 0 of rows and
\* page size s >= 1, in every render; an empty list has one page, and that
\* page is empty.
PageCountIsCeiling ==
    /\ \A n \in 0..MaxRows, s \in PageSizes \cup {1} :
          totalPagesOf([i \in 1..n |-> i], s) = LeastPages(n, s)
    /\ \A i \in 1..Len(renders) :
          renders[i].totalPages = LeastPages(Len(sortedLicenses), pageSize)
    /\ sortedLicenses = <<>> =>
          Shown.totalPages = 1 /\ Shown.paginatedLicenses = <<>>

\* a filter has emptied a list that has rows: one empty page
EmptyListHasOnePage ==
    /\ licenses # <<>>
    /\ sortedLicenses = <<>>
    /\ Shown.totalPages = 1
    /\ Shown.paginatedLicenses = <<>>

\* C12: a page holds at most s rows, and pages 1..totalPages one after the
\* other are the sorted and filtered list, for every page size.
PagesPartitionList ==
    \A s \in PageSizes \cup {1} :
        LET tp == totalPagesOf(sortedLicenses, s)
        IN  /\ \A p \in 1..tp : Len(paginate(sortedLicenses, p, s)) <= s
            /\ ConcatPages(sortedLicenses, s, tp) = sortedLicenses

\* three pages, the last one with fewer rows than the page size
LastPageIsPartial ==
    /\ Shown.totalPages = 3
    /\ Shown.currentPage = 3
    /\ Len(Shown.paginatedLicenses) \in 1..(pageSize - 1)

\* a step that changes the search term, the status filter or the page size
ResetDepsChange ==
    searchTerm' # searchTerm \/ filterStatus' # filterStatus \/ pageSize' # pageSize

\* a step that changes the sort or replaces the list, and none of the above
SortOrDataChange ==
    (sortConfig' # sortConfig \/ licenses' # licenses) /\ ~ResetDepsChange

\* after a sort change or a refresh the page is the one before, unless it
\* lay beyond the last page and was clamped to it
SortAndRefreshKeepPage ==
    [][SortOrDataChange =>
          \/ currentPage' = currentPage
          \/ currentPage > Shown'.totalPages /\ currentPage' = Shown'.totalPages]_vars

\* C13: a change of the search term, the status filter or the page size
\* leaves the current page at 1; a sort change or a data refresh does not by
\* itself reset the page.
ViewChangeResetsPage ==
    /\ [][ResetDepsChange => currentPage' = 1]_vars
    /\ SortAndRefreshKeepPage

\* no render at all shows a current page beyond the last page
NoRenderBeyondLastPage ==
    \A i \in 1..Len(renders) : renders[i].currentPage <= renders[i].totalPages

\* C14: a current page beyond the freshly computed totalPages is clamped to
\* totalPages by the effect that follows the render which computed it: that
\* render is followed by one with currentPage = totalPages, and the render a
\* state change ends with has 1 <= currentPage <= totalPages.
ClampedBeforeNextRender ==
    /\ currentPage = Shown.currentPage
    /\ Shown.currentPage \in 1..Shown.totalPages
    /\ \A i \in 1..Len(renders) :
          renders[i].currentPage > renders[i].totalPages =>
              /\ i < Len(renders)
              /\ renders[i + 1].currentPage = renders[i + 1].totalPages

\* a refresh brought fewer pages than the current page: the render with the
\* new list showed a page beyond the last one, the next render the last page
RefreshShrankBelowPage ==
    /\ Len(renders) = 2
    /\ renders[1].currentPage > renders[1].totalPages
    /\ renders[1].paginatedLicenses = <<>>
    /\ Shown.currentPage = Shown.totalPages
    /\ searchTerm = <<>> /\ filterStatus = "all" /\ pageSize = 10

\* C15: what a render shows is the page slice of sort(filter(licenses)) for
\* the render's current page: rows (currentPage - 1) * pageSize + 1 to
\* currentPage * pageSize of the raw list filtered by the search term and the
\* status filter and then sorted by the sort configuration.
RenderedPageIsSliceOfPipeline ==
    LET full == SortLicenses(FilterLicenses(licenses, searchTerm, filterStatus, now),
                             sortConfig, now)
    IN  \A i \in 1..Len(renders) :
            renders[i].paginatedLicenses =
                RowsFrom(full, (renders[i].currentPage - 1) * pageSize, pageSize)

\* page two of a refreshed list, filtered and sorted by key downwards
SecondPageOfFilteredSortedList ==
    /\ Shown.currentPage = 2
    /\ Shown.paginatedLicenses # <<>>
    /\ searchTerm # <<>>
    /\ sortConfig = [field |-> "license_key", direction |-> "desc"]
    /\ Len(sortedLicenses) < Len(licenses)
    /\ sortedLicenses # filteredLicenses

\* the counts over the raw list, by counting rows
RawCounts(list, t) ==
    [total |-> Cardinality(DOMAIN list),
     active |-> Cardinality({i \in DOMAIN list : list[i].hwid # NULL}),
     expired |-> Cardinality({i \in DOMAIN list : list[i].expires_at < t}),
     available |-> Cardinality({i \in DOMAIN list :
                                   list[i].hwid = NULL /\ list[i].expires_at > t})]

\* C16: the counts of the dashboard are a function of the raw list alone, and
\* a step that changes the search term, the status filter, the sort, the
\* page or the page size, and not the raw list, leaves them as they are.
CountsDependOnRawListOnly ==
    /\ [](stats = RawCounts(licenses, now))
    /\ [][licenses' = licenses => stats' = stats]_vars

\* a filtered, re-sorted, re-paged view whose counts still cover every row
CountsCoverHiddenRows ==
    /\ Len(filteredLicenses) < Len(licenses)
    /\ stats.total = Len(licenses)
    /\ stats.expired > 0 /\ stats.available > 0
    /\ filterStatus = "expired"
    /\ sortConfig.field # "expires_at"
    /\ pageSize # 10

(***************************************************************************)
(* Remote call properties.                                                 *)
(***************************************************************************)
\* the fetches, and the inserts, updates and deletes, among the calls awaited
Selects(queue) ==
    LET IsSelect(r) == r.op = "select"
    IN  Len(SelectSeq(queue, IsSelect))
Writes(queue) == Len(queue) - Selects(queue)

\* in this step a fetch completed; in this step an insert, update or delete
\* completed
FetchCompletes == Selects(inflight') = Selects(inflight) - 1
WriteCompletes == Writes(inflight') = Writes(inflight) - 1

\* C17: the local list changes only in a step in which a fetch completes
\* successfully, and then it becomes the rows the store answered with; the
\* create, unlock and delete handlers leave it as it is when they send their
\* call and when the call succeeds or fails.
LocalListChangesOnlyOnFetch ==
    /\ [][licenses' # licenses =>
             /\ FetchCompletes
             /\ lastOutcome' = [op |-> "select", ok |-> TRUE]
             /\ licenses' = table]_vars
    /\ [][Writes(inflight') # Writes(inflight) => licenses' = licenses]_vars

\* an insert has succeeded, the store holds the new row, the local list does
\* not, and the re-fetch is awaited
InsertDoneListNotYetRefreshed ==
    /\ lastOutcome = [op |-> "insert", ok |-> TRUE]
    /\ licenses = <<>>
    /\ Len(table) = 1
    /\ Selects(inflight) = 1

\* C18: in the step in which the store reports an insert, update or delete
\* as successful, a fetch of the list is sent.
WriteSuccessIssuesRefetch ==
    [][WriteCompletes /\ lastOutcome'.ok =>
          Selects(inflight') = Selects(inflight) + 1]_vars

\* the same while every call awaited was sent by a handler that saw an
\* authorized user
AuthorizedWriteSuccessIssuesRefetch ==
    [][(WriteCompletes /\ lastOutcome'.ok
            /\ \A i \in 1..Len(inflight) : inflight[i].authorized) =>
          Selects(inflight') = Selects(inflight) + 1]_vars

(***************************************************************************)
(* Connection properties.                                                  *)
(***************************************************************************)
\* a source gives a URL and a key; its initialisation succeeds
Given(c) == c.url \notin {NULL, Str(<<>>)} /\ c.key \notin {NULL, Str(<<>>)}
Works(c) == Given(c) /\ initSupabase(c).success

\* what the page load found stored, as credentials
StoredAtLoad == [url |-> storedAtLoad.sb_url, key |-> storedAtLoad.sb_key]

\* C19: on load initSupabase is called for the environment, then for the URL
\* parameters, then for the stored credentials, each only if it is given
\* and no source before it succeeded; the app is connected, with the client
\* of the first source that succeeds, iff one succeeds.
SourcesTriedInOrder ==
    LET first == IF Given(env) THEN <<"env">> ELSE <<>>
        second == IF ~Works(env) /\ Given(urlParams) THEN <<"url">> ELSE <<>>
        third == IF ~Works(env) /\ ~Works(urlParams) /\ Given(StoredAtLoad)
                 THEN <<"stored">> ELSE <<>>
    IN  /\ tried = first \o second \o third
        /\ isConnected = (Works(env) \/ Works(urlParams) \/ Works(StoredAtLoad))
        /\ supabaseInstance =
              IF Works(env) THEN Str(env)
              ELSE IF Works(urlParams) THEN Str(urlParams)
              ELSE IF Works(StoredAtLoad) THEN Str(StoredAtLoad)
              ELSE NULL

\* environment and URL parameters were given and failed, the stored
\* credentials connected
FellThroughToStored ==
    /\ tried = <<"env", "url", "stored">>
    /\ isConnected
    /\ supabaseInstance = Str(StoredAtLoad)

\* this load connected with the URL parameters
UrlSucceeded == isConnected /\ tried # <<>> /\ tried[Len(tried)] = "url"

\* C20: localStorage holds the URL parameters if this load tried them and
\* their initialisation succeeded, and else what the load found; a load
\* without environment and URL credentials that follows a load which saved
\* the URL parameters tries the stored source only and connects with them.
StorageWrittenOnlyByUrlSuccess ==
    /\ [](localStorage = IF UrlSucceeded
                         THEN [sb_url |-> urlParams.url, sb_key |-> urlParams.key]
                         ELSE storedAtLoad)
    /\ [][(UrlSucceeded /\ ~Given(env) /\ ~Given(urlParams')) =>
             /\ tried' = <<"stored">>
             /\ isConnected'
             /\ supabaseInstance' = Str(urlParams)]_vars

\* the environment failed, the URL parameters connected and replaced other
\* stored credentials
UrlCredentialsReplacedStored ==
    /\ tried = <<"env", "url">>
    /\ UrlSucceeded
    /\ Given(StoredAtLoad)
    /\ localStorage # storedAtLoad

(***************************************************************************)
(* Authorization.                                                          *)
(***************************************************************************)
\* the addresses of a comma-separated value: each stretch between commas,
\* without the blanks around it, when something is left
AllowList(raw) ==
    LET str == IF raw = NULL THEN <<>> ELSE raw[1]
        Stretch(a, b) ==
            /\ a = 1 \/ str[a - 1] = ","
            /\ b = Len(str) \/ str[b + 1] = ","
            /\ \A k \in a..b : str[k] # ","
        Address(i, j) ==
            /\ i <= j
            /\ str[i] # " " /\ str[j] # " "
            /\ \E a \in 1..i, b \in j..Len(str) :
                  /\ Stretch(a, b)
                  /\ \A k \in (a..(i - 1)) \cup ((j + 1)..b) : str[k] = " "
    IN  {SubSeq(str, i, j) : <<i, j>> \in
            {ij \in (1..Len(str)) \X (1..Len(str)) : Address(ij[1], ij[2])}}

SameIgnoringCase(x, y) ==
    /\ Len(x) = Len(y)
    /\ \A k \in 1..Len(x) : LowerChar(x[k]) = LowerChar(y[k])

\* C21: without a user nobody is authorized; a user is authorized exactly
\* when the allow-list has no address, or has an address equal to the
\* user's email up to case
AuthorizedIffOnAllowList ==
    /\ adminEmails = parseAdminEmails(adminEnv)
    /\ user = NULL => ~isAuthorized
    /\ user # NULL =>
          (isAuthorized <=>
              \/ AllowList(adminEnv) = {}
              \/ \E address \in AllowList(adminEnv) :
                    SameIgnoringCase(address, user[1]))

\* an upper-case email authorized by an entry written after a blank
AuthorizedUpToCaseAndBlanks ==
    /\ adminEnv = Str(<<"a", ",", " ", "B">>)
    /\ user = Str(<<"B">>)
    /\ isAuthorized

SignInCalls == {i \in 1..Len(authCalls) : authCalls[i].op = "signIn"}
LoginSignOuts ==
    {i \in 1..Len(authCalls) : authCalls[i].op = "signOut" /\ authCalls[i].login}

\* a step in which the auth service accepts the login awaited
LoginAccepted ==
    /\ SignInCalls # {}
    /\ SignInCalls' = {}
    /\ lastOutcome' = [op |-> "signIn", ok |-> TRUE]

OffAllowList(u) == u # NULL /\ adminEmails # <<>> /\ ~isAuthorizedOf(u, adminEmails)

\* C22: when a login is accepted for an account that a non-empty allow-list
\* leaves out, the same step sends signOut and records the authorization
\* error, the attempt goes on until that signOut completes, and it ends
\* with no session; no accepted attempt ends with the session of such an
\* account
UnauthorizedLoginIsSignedOut ==
    /\ [][LoginAccepted /\ OffAllowList(authSession') =>
             /\ LoginSignOuts' # {}
             /\ authError' = Str(UnauthorizedMessage)
             /\ authLoading']_vars
    /\ [][LoginSignOuts # {} /\ LoginSignOuts' = {} =>
             authSession' = NULL /\ user' = NULL /\ ~authLoading']_vars
    /\ [][authLoading /\ ~authLoading' /\ (LoginAccepted \/ LoginSignOuts # {}) =>
             ~OffAllowList(authSession')]_vars
    /\ [](LoginSignOuts # {} => authLoading /\ authError = Str(UnauthorizedMessage))

\* the attempt of an account off the allow-list has ended: signed out, the
\* error shown on the login form
UnauthorizedLoginEnded ==
    /\ lastOutcome = [op |-> "signOut", ok |-> TRUE]
    /\ authError = Str(UnauthorizedMessage)
    /\ ~authLoading
    /\ authSession = NULL
    /\ user = NULL

(***************************************************************************)
(* The current page.                                                       *)
(***************************************************************************)
\* a step of the Previous or Next button: only the page changes
PageButtonStep ==
    /\ currentPage' # currentPage
    /\ UNCHANGED <<viewVars, pageSize, remoteVars>>

\* C23: in every state the handlers and their effects leave, the current
\* page is at least 1 and at most the number of pages of the sorted list;
\* Previous and Next move it by one page and never out of that range
CurrentPageWithinPages ==
    /\ [](/\ currentPage >= 1
          /\ currentPage <= totalPagesOf(sortedLicenses, pageSize)
          /\ Shown.currentPage = currentPage)
    /\ [][PageButtonStep =>
             /\ currentPage' \in {currentPage - 1, currentPage + 1}
             /\ currentPage' >= 1
             /\ currentPage' <= totalPagesOf(sortedLicenses, pageSize)]_vars

\* Next has reached the last of three pages, where it is disabled
NextReachedLastPage ==
    /\ currentPage = 3
    /\ totalPagesOf(sortedLicenses, pageSize) = 3
    /\ ~ENABLED ClickNext
    /\ ENABLED ClickPrevious

(***************************************************************************)
(* Failures of remote calls.                                               *)
(***************************************************************************)
\* in this step an insert, update or delete was answered with a failure
WriteFails ==
    /\ WriteCompletes
    /\ lastOutcome'.op \in {"insert", "update", "delete"}
    /\ ~lastOutcome'.ok

Carries(text, message) ==
    /\ text # NULL
    /\ Len(text[1]) >= Len(message)
    /\ SubSeq(text[1], Len(text[1]) - Len(message) + 1, Len(text[1])) = message

\* C24: a step in which a create, unlock or delete fails shows an alert
\* that carries the failure message, sends no call (no re-fetch, no retry),
\* leaves the local list as it is and, for a create, leaves the modal and
\* the form as they are; afterwards the form can be submitted again and a
\* row shown can be unlocked or deleted again
WriteFailureAlertsAndKeepsState ==
    /\ [][WriteFails =>
             /\ Carries(alert', FailureMessage)
             /\ \E i \in 1..Len(inflight) : inflight' = Remove(inflight, i)
             /\ loading' = loading
             /\ licenses' = licenses
             /\ lastOutcome'.op = "insert" =>
                   isAddModalOpen' = isAddModalOpen /\ newLicense' = newLicense]_vars
    /\ [](~lastOutcome.ok /\ Len(inflight) < MaxInflight =>
             /\ isAddModalOpen /\ newLicense # <<>> => ENABLED handleCreateLicense
             /\ \A key \in FormKeys :
                   DashboardShown /\ ShownRow(key) # <<>> =>
                       /\ ENABLED handleDelete(key, TRUE)
                       /\ Truthy(ShownRow(key)[1].hwid) =>
                             ENABLED handleResetHWID(key, TRUE))

\* a create has failed: the alert was shown, the modal is open with the key
\* typed, nothing is awaited
CreateFailedModalStillOpen ==
    /\ lastOutcome = [op |-> "insert", ok |-> FALSE]
    /\ alert = Str(CreateAlert(FailureMessage))
    /\ isAddModalOpen
    /\ newLicense # <<>>
    /\ inflight = <<>>

\* in this step a fetch was answered with a failure
FetchFails ==
    /\ FetchCompletes
    /\ lastOutcome' = [op |-> "select", ok |-> FALSE]

\* what a failed fetch does to the state: the message is stored in error,
\* the list is kept, loading is false and no call is sent
RefreshFailureSetsErrorState ==
    [][FetchFails =>
          /\ error' = Str(FailureMessage)
          /\ licenses' = licenses
          /\ ~loading'
          /\ \E i \in 1..Len(inflight) : inflight' = Remove(inflight, i)]_vars

\* C25: a step in which a fetch fails puts the failure message on screen,
\* keeps the list, sets loading to false and sends no call, and the message
\* leaves the screen only in a step in which a fetch succeeds
RefreshFailureShowsBanner ==
    /\ [][FetchFails =>
             /\ Carries(ErrorBanner', FailureMessage)
             /\ licenses' = licenses
             /\ ~loading'
             /\ \E i \in 1..Len(inflight) : inflight' = Remove(inflight, i)]_vars
    /\ [][Carries(ErrorBanner, FailureMessage) /\ ~Carries(ErrorBanner', FailureMessage) =>
             FetchCompletes /\ lastOutcome' = [op |-> "select", ok |-> TRUE]]_vars

(***************************************************************************)
(* Calls awaited at the same time.                                         *)
(***************************************************************************)
\* C26: a call is sent whatever is awaited already, and sending it leaves
\* the calls awaited as they are: while there is room the form can be
\* submitted, and refresh, unlock and delete clicked, with the same call
\* awaited; a step that sends a call appends it
CallsNeitherMergedNorCancelled ==
    /\ [](Len(inflight) < MaxInflight =>
             /\ isAddModalOpen /\ newLicense # <<>> => ENABLED handleCreateLicense
             /\ DashboardShown =>
                   /\ ENABLED ClickRefresh
                   /\ \A key \in FormKeys :
                         ShownRow(key) # <<>> =>
                             /\ ENABLED handleDelete(key, TRUE)
                             /\ Truthy(ShownRow(key)[1].hwid) =>
                                   ENABLED handleResetHWID(key, TRUE))
    /\ [][Len(inflight') = Len(inflight) + 1 =>
             SubSeq(inflight', 1, Len(inflight)) = inflight]_vars
    /\ [][Len(inflight') < Len(inflight) =>
             \E i \in 1..Len(inflight) : inflight' = Remove(inflight, i)]_vars

\* the form was submitted twice: two inserts of the same key are awaited
TwoInsertsOfOneKeyAwaited ==
    /\ Len(inflight) = 2
    /\ inflight[1].op = "insert" /\ inflight[2].op = "insert"
    /\ inflight[1].key = inflight[2].key

(***************************************************************************)
(* Writes and authorization.                                               *)
(***************************************************************************)
\* the call sent in this step, when it is one of these operations
Sends(ops) ==
    /\ Len(inflight') = Len(inflight) + 1
    /\ SubSeq(inflight', 1, Len(inflight)) = inflight
    /\ inflight'[Len(inflight')].op \in ops

\* an update or a delete is sent only by a signed-in, authorized user
UnlockAndDeleteOnlyWhenAuthorized ==
    [][Sends({"update", "delete"}) => user # NULL /\ isAuthorized]_vars

\* C27: an insert, update or delete is sent only in a state in which a user
\* is signed in and authorized
WritesOnlyWhenAuthorized ==
    [][Sends({"insert", "update", "delete"}) => user # NULL /\ isAuthorized]_vars

(***************************************************************************)
(* Fetches awaited at the same time.                                       *)
(***************************************************************************)
\* the step that answers the fetch sent last with rows makes them the
\* list, and the list stays as it is until another fetch is sent
ListIsNewestResponse ==
    /\ [][newestFetch.awaited /\ ~newestFetch'.awaited /\ newestFetch'.ok =>
             licenses' = table]_vars
    /\ [][~newestFetch.awaited /\ newestFetch.ok /\ ~newestFetch'.awaited =>
             licenses' = licenses]_vars

\* loading is true while a fetch is awaited
LoadingWhileFetching == Selects(inflight) > 0 => loading

\* C28: once no fetch is awaited the local list is the response of the
\* fetch that was sent last, and loading is true in every state in which a
\* fetch is awaited
FetchesSettleOnNewest == ListIsNewestResponse /\ []LoadingWhileFetching

(***************************************************************************)
(* Badges under a status filter while the clock advances.                  *)
(***************************************************************************)
\* C29: in what is on screen, every row shown under the filter 'expired'
\* has the expired badge, every row under 'expiring' the expiring badge and
\* every row under 'active' a badge other than expired, the badges being
\* those of the instant of the render
BadgesAgreeWithStatusFilter ==
    \A i \in 1..Len(Shown.paginatedLicenses) :
        LET badge == rowBadge(Shown.paginatedLicenses[i], renderedAt)
        IN  /\ filterStatus = "expired" => badge = "expired"
            /\ filterStatus = "expiring" => badge = "expiring"
            /\ filterStatus = "active" => badge # "expired"

(***************************************************************************)
(* The counts and the statuses.                                            *)
(***************************************************************************)
Bound(l) == l.hwid # NULL

\* C30: active counts the records with a hwid whatever their expiry,
\* expired those that expire before now, available those without a hwid
\* that expire after now; a record with a hwid that has expired is counted
\* twice, one without a hwid that expires at now not at all, so the three
\* counts add up to the total plus the former minus the latter
CountsOverlapOnExpiredBound ==
    LET rows == DOMAIN licenses
        bound == {i \in rows : Bound(licenses[i])}
        past == {i \in rows : licenses[i].expires_at < now}
        free == {i \in rows : ~Bound(licenses[i]) /\ licenses[i].expires_at > now}
        never == {i \in rows : ~Bound(licenses[i]) /\ licenses[i].expires_at = now}
    IN  /\ stats.active = Cardinality(bound)
        /\ stats.expired = Cardinality(past)
        /\ stats.available = Cardinality(free)
        /\ stats.active + stats.available + stats.expired
              = stats.total + Cardinality(bound \cap past) - Cardinality(never)
        /\ \A i \in rows :
              getLicenseStatus(licenses[i], now) = "expired" /\ Bound(licenses[i]) =>
                  i \in bound \cap past

\* one record, bound and expired: counted as active and as expired
ExpiredBoundCountedTwice ==
    /\ Len(licenses) = 1
    /\ Truthy(licenses[1].hwid)
    /\ licenses[1].expires_at < now
    /\ stats = [total |-> 1, active |-> 1, expired |-> 1, available |-> 0]

====
